---- MODULE Spec2Model ----
(***************************************************************************)
(* Yahoo Finance downloader: one batch run is                              *)
(*   get_stock_data -> extract_stock_data -> save_to_csv -> error report   *)
(* (src/main.py), with the fatal-error tracking file and the notification  *)
(* email of the logger (src/utility.py).  main.py reaches the logger       *)
(* through the names log_fatal_error / get_fatal_error / set_fatal_error / *)
(* clear_fatal_error / send_email; they are modelled by the repository's   *)
(* own implementation, UtilityFunctions.report_fatal_error,                *)
(* fatal_error_tracking and send_email.                                    *)
(***************************************************************************)
EXTENDS Integers, Sequences, FiniteSets, TLC

(***************************************************************************)
(* Bounds of the model.                                                    *)
(***************************************************************************)
\* longest Yahoo.Symbols list handed to extract_stock_data on its own
MaxSymbols == 2
\* most rows of a downloaded frame handed to extract_stock_data on its own
MaxBars == 2
\* most entries of yfinance.shared._ERRORS after a download
MaxErrors == 1

(***************************************************************************)
(* Text.  Strings that the code compares or orders are sequences of code   *)
(* points; Python orders str by code point, and tuples lexicographically.  *)
(***************************************************************************)
Min(a, b) == IF a <= b THEN a ELSE b

\* Python's  a < b  on two str (or two lists of ints)
StrLt(a, b) ==
    LET differ == { i \in 1..Min(Len(a), Len(b)) : a[i] # b[i] }
    IN  IF differ = {}
        THEN Len(a) < Len(b)
        ELSE LET k == CHOOSE i \in differ : \A j \in differ : i <= j
             IN  a[k] < b[k]

\* the ticker symbols of the model, as code points
AAPL == <<65, 65, 80, 76>>
MSFT == <<77, 83, 70, 84>>
Symbols == {AAPL, MSFT}

(***************************************************************************)
(* The logger (src/utility.py).  A logger value lg is the part of the      *)
(* world the logger acts on during one run:                                *)
(*   file     the fatal-error tracking file: <<>> when it does not exist,  *)
(*            <<m>> when it holds message m                                *)
(*   sent     subjects of the emails handed to the SMTP server, in order   *)
(*   attempts number of SMTP connections opened                            *)
(*   log      the FATAL ERROR lines written by report_fatal_error          *)
(*   ctl      "ok" the call returned, "exit" sys.exit(1) was raised,       *)
(*            "raise" an exception left the call                           *)
(***************************************************************************)
Msg(text) == [text |-> text, n |-> 0]
MsgN(text, n) == [text |-> text, n |-> n]

NoDataMsg == Msg("No data returned. Check if the parameters (e.g., period, interval) are valid.")
MissingColumnsMsg == Msg("Missing expected columns for symbol. Data might be incomplete.")
SymbolNotFoundMsg == Msg("Symbol not found in the returned data.")
RateLimitMsg == Msg("Yahoo Finance rate limit error. Please try again later.")
InvalidIntervalMsg == Msg("Yahoo Finance API called with invalid interval")
InvalidPeriodMsg == Msg("Yahoo Finance API called with invalid period")
FetchExceptionMsg == Msg("Exception caught when fetching data from Yahoo Finance")
CsvFailedMsg == Msg("Failed to write CSV file")
UnexpectedMsg == Msg("An unexpected error occurred while writing")
SmtpIncompleteMsg == Msg("SMTP configuration is incomplete. Please check the settings.")
SendFailedMsg == Msg("Failed to send email")
DownloadErrorsMsg(n) == MsgN("There were errors reported with n stocks during the Yahoo Finance downloaded.", n)
ExtractErrorsMsg(n) == MsgN("There were errors with n stocks when extracting data from the downloaded data.", n)

FatalSubject == "YahooFinance terminated with a fatal error"
ProblemsSubject == "Problems with Yahoo stock download"
RecoverySubject == "Run recovery"

\* Email section of the configuration together with what the SMTP server does:
\*   "disabled"     EnableEmail is false (the default configuration)
\*   "incomplete"   EnableEmail is true and one of the SMTP settings is empty
\*   "ok"           complete settings, the server accepts the message
\*   "RuntimeError" complete settings, the send raises RuntimeError
\*   "OSError"      complete settings, the send raises another exception
\*                  (smtplib.SMTPException and socket errors are OSError)
EmailModes == {"disabled", "incomplete", "ok", "RuntimeError", "OSError"}

VARIABLES
    email,                \* the Email configuration and SMTP behaviour, in EmailModes
    yf_symbols,           \* config.get("Yahoo", "Symbols")
    fatal_file,           \* FatalErrorTracking.txt: <<>> or <<message>>
    pc,                   \* where main() is: "idle", "fetch", "extract", "save",
                          \*   "report", "finish", "except", "exited"
    exit_status,          \* the status the process of the last run ended with
    sent,                 \* subjects of the emails sent by the current run
    attempts,             \* SMTP connections opened by the current run
    log,                  \* FATAL ERROR lines of the current run
    calls,                \* the functions of main.py the current run has entered
    returned,             \* those of them that have returned to main()
    response,             \* what yf.download did in the current run
    yf_shared_errors,     \* yfinance.shared._ERRORS after the download
    yf_data,              \* main(): yf_data
    yf_errors,            \* main(): yf_errors
    stock_prices,         \* main(): stock_prices
    extract_error_count,  \* main(): extract_error_count
    start_file,           \* fatal_file when the current run started
    prev,                 \* what the previous run looked like from outside
    ticker_info,          \* what get_info() did for each position of yf_symbols in
                          \*   the current run, NotCalled where it was not called
    config_file,          \* YahooFinanceConfig.yaml: <<>> when it does not exist,
                          \*   <<f>> when it holds f, a YAML scalar for each key
    config_created,       \* load_config has written the default configuration
    config_status,        \* "pending", "loaded", or "exit" when load_config
                          \*   ended the process with sys.exit(1)
    active_config         \* ConfigManager.active_config: <<>> or <<document>>

vars == <<email, yf_symbols, fatal_file, pc, exit_status, sent, attempts, log, calls, returned,
          response, yf_shared_errors, yf_data, yf_errors, stock_prices,
          extract_error_count, start_file, prev, ticker_info,
          config_file, config_created, config_status, active_config>>

config_vars == <<config_file, config_created, config_status, active_config>>

\* fatal_error_tracking("get")
fatal_error_tracking_get(lg) == lg.file # <<>>

\* fatal_error_tracking("set", message); message <<>> stands for None
fatal_error_tracking_set(lg, message) ==
    IF message = <<>>
    THEN [lg EXCEPT !.file = <<>>]
    ELSE [lg EXCEPT !.file = <<message[1]>>]

RECURSIVE report_fatal_error(_, _, _, _)
RECURSIVE send_email(_, _)

\* send_email(subject, body)
send_email(lg, subject) ==
    IF email = "disabled"
    THEN lg
    ELSE IF email = "incomplete"
    THEN report_fatal_error(lg, SmtpIncompleteMsg, "send_email", TRUE)
    ELSE LET opened == [lg EXCEPT !.attempts = @ + 1]
         IN  CASE email = "ok" -> [opened EXCEPT !.sent = Append(@, subject)]
               [] email = "RuntimeError" ->
                    report_fatal_error(opened, SendFailedMsg, "send_email", TRUE)
               [] OTHER -> [opened EXCEPT !.ctl = "raise"]

\* report_fatal_error(message, report_stack=False, exit_program=False), called
\* from the function named function_name
report_fatal_error(lg, message, function_name, exit_program) ==
    LET logged == [lg EXCEPT !.log = Append(@, message)]
        mailed == IF function_name # "send_email" /\ ~fatal_error_tracking_get(logged)
                  THEN send_email(logged, FatalSubject)
                  ELSE logged
    IN  IF mailed.ctl # "ok"
        THEN mailed
        ELSE LET recorded == fatal_error_tracking_set(mailed, <<message>>)
             IN  IF exit_program THEN [recorded EXCEPT !.ctl = "exit"] ELSE recorded

\* logger.log_fatal_error(message) as main.py calls it: no stack, no exit
log_fatal_error(lg, message, function_name) ==
    report_fatal_error(lg, message, function_name, FALSE)

\* logger.get_fatal_error(), set_fatal_error(message), clear_fatal_error()
get_fatal_error(lg) == fatal_error_tracking_get(lg)
set_fatal_error(lg, message) == fatal_error_tracking_set(lg, <<message>>)
clear_fatal_error(lg) == fatal_error_tracking_set(lg, <<>>)

\* the logger value of the current state
Logger == [file |-> fatal_file, sent |-> sent, attempts |-> attempts, log |-> log, ctl |-> "ok"]


(***************************************************************************)
(* The provider (yfinance).  yf.download either raises, returns None, or   *)
(* returns one frame for all tickers: a shared date index and, for each    *)
(* ticker present, its column names and its Close column (one value per    *)
(* row of the index).  yfinance.shared._ERRORS is a dict ticker -> text,   *)
(* modelled by the sequence of its items.  An error text is a sequence of  *)
(* pieces of text.                                                         *)
(***************************************************************************)
RateLimitMarker == "YFRateLimitError"
IntervalMarker == "Invalid input - interval"
PeriodMarker == "YFInvalidPeriodError"

ErrorTexts ==
    { <<RateLimitMarker, "('Too Many Requests. Rate limited.')">>,
      <<"Failed download: ", RateLimitMarker>>,
      <<"Exception('", IntervalMarker, "')">>,
      <<PeriodMarker, "('Period is invalid')">>,
      <<"YFPricesMissingError('possibly delisted; no price data found')">> }

\* a faulty variant: the whole text compared with the marker (== for startswith)
startswith_equal(text, marker) == text = <<marker>>

\* str.startswith(marker)
startswith(text, marker) == Len(text) >= 1 /\ text[1] = marker

RequiredColumns == {"Open", "High", "Low", "Close", "Volume"}

\* a Close cell: NaN, a number of hundredths, or a value float() rejects
NaN == [t |-> "nan", v |-> 0]
Num(v) == [t |-> "float", v |-> v]
BadCell == [t |-> "str", v |-> 0]
CloseCells == {NaN, Num(0), Num(15000), BadCell}

\* pandas Timestamps of the index
Timestamps == { [y |-> 2023, m |-> 12, d |-> 29],
                [y |-> 2024, m |-> 1, d |-> 2],
                [y |-> 2024, m |-> 1, d |-> 10] }

\* all sequences over S of length lo..hi
SeqsOf(S, lo, hi) == UNION { [1..n -> S] : n \in lo..hi }

\* for error in yf_error_list: error_list.append({"Symbol": symbol, "Error": error})
get_yf_errors(items) ==
    [i \in 1..Len(items) |-> [Symbol |-> items[i][1], Error |-> items[i][2]]]

\* symbol in data.columns.get_level_values(0)
InColumns(data, symbol) == symbol \in DOMAIN data.frames

\* the first symbol of the validation loop that ends it, 0 when none does
FirstInvalid(data, symbols) ==
    LET bad == { i \in 1..Len(symbols) :
                    \/ ~InColumns(data, symbols[i])
                    \/ ~(RequiredColumns \subseteq data.frames[symbols[i]].columns) }
    IN  IF bad = {} THEN 0 ELSE CHOOSE i \in bad : \A j \in bad : i <= j

\* any(error["Error"].startswith("YFRateLimitError") for error in error_list)
AnyStartsWith(error_list, marker) ==
    \E i \in 1..Len(error_list) : startswith(error_list[i].Error, marker)

\* any(error["Error"].contains(marker) for error in error_list): the texts are
\* str, and str has no method "contains", so the first element raises
\* AttributeError; only the empty list gives False
AnyContains(error_list, marker) ==
    IF error_list = <<>> THEN "False" ELSE "AttributeError"

\* a faulty variant: `return None, 0` without the get_yf_errors(logger) call
FatalThen_no_errors(lg, message, bound, retrieved) ==
    LET l1 == log_fatal_error(lg, message, "get_stock_data")
    IN  [lg |-> l1,
         flow |-> IF l1.ctl = "ok" THEN "return_none" ELSE l1.ctl,
         bound |-> bound,
         retrieved |-> FALSE]

\* logger.log_fatal_error(message) inside the try block, followed by
\* get_yf_errors(logger) and `return None, 0` when it returns
FatalThen(lg, message, bound, retrieved) ==
    LET l1 == log_fatal_error(lg, message, "get_stock_data")
    IN  [lg |-> l1,
         flow |-> IF l1.ctl = "ok" THEN "return_none" ELSE l1.ctl,
         bound |-> bound,
         retrieved |-> retrieved /\ l1.ctl = "ok"]

\* the try block of get_stock_data; download is what yf.download does and
\* items what yfinance.shared._ERRORS holds after it.  flow: "return_none" it
\* returned (None, 0), "fall" it ran to its end, "raise" an exception was
\* raised in it, "exit" sys.exit was raised in it.  bound: the locals assigned
\* when it ended.  retrieved: get_yf_errors has been called.
get_stock_data_try(lg, symbols, download, items) ==
    IF download.kind = "raise"
    THEN [lg |-> lg, flow |-> "raise", bound |-> {}, retrieved |-> FALSE]
    ELSE IF download.kind = "none" \/ download.index = <<>> \/ DOMAIN download.frames = {}
    THEN FatalThen(lg, NoDataMsg, {"data"}, TRUE)
    ELSE LET k == FirstInvalid(download, symbols)
             error_list == get_yf_errors(items)
         IN  IF k # 0
             THEN IF InColumns(download, symbols[k])
                  THEN FatalThen(lg, MissingColumnsMsg, {"data"}, TRUE)
                  ELSE FatalThen(lg, SymbolNotFoundMsg, {"data"}, TRUE)
             ELSE IF AnyStartsWith(error_list, RateLimitMarker)
             THEN [FatalThen(lg, RateLimitMsg, {"data", "error_list"}, TRUE)
                      EXCEPT !.retrieved = TRUE]
             ELSE CASE AnyContains(error_list, IntervalMarker) = "AttributeError" ->
                       [lg |-> lg, flow |-> "raise", bound |-> {"data", "error_list"},
                        retrieved |-> TRUE]
                    [] AnyContains(error_list, IntervalMarker) = "True" ->
                       [FatalThen(lg, InvalidIntervalMsg, {"data", "error_list"}, TRUE)
                           EXCEPT !.retrieved = TRUE]
                    [] AnyContains(error_list, PeriodMarker) = "True" ->
                       [FatalThen(lg, InvalidPeriodMsg, {"data", "error_list"}, TRUE)
                           EXCEPT !.retrieved = TRUE]
                    [] OTHER ->
                       [lg |-> lg, flow |-> "fall", bound |-> {"data", "error_list"},
                        retrieved |-> TRUE]

\* `return data, error_list` after the try statement: a local never assigned
\* raises UnboundLocalError
get_stock_data_return(lg, bound, retrieved, download, items) ==
    IF {"data", "error_list"} \subseteq bound
    THEN [lg |-> lg, ret |-> "return", data |-> <<download>>,
          error_list |-> get_yf_errors(items), retrieved |-> retrieved]
    ELSE [lg |-> lg, ret |-> "raise", data |-> <<>>, error_list |-> <<>>,
          retrieved |-> retrieved]

\* get_stock_data(config, logger, symbols).  ret: "return" with data = <<>> for
\* None and <<frame>> otherwise, "raise" an exception left the function, "exit"
\* sys.exit left it
get_stock_data(lg, symbols, download, items) ==
    LET t == get_stock_data_try(lg, symbols, download, items)
    IN  CASE t.flow = "exit" ->
               [lg |-> t.lg, ret |-> "exit", data |-> <<>>, error_list |-> <<>>,
                retrieved |-> t.retrieved]
          [] t.flow = "return_none" ->
               [lg |-> t.lg, ret |-> "return", data |-> <<>>, error_list |-> <<>>,
                retrieved |-> t.retrieved]
          [] t.flow = "raise" ->
               LET h == log_fatal_error([t.lg EXCEPT !.ctl = "ok"], FetchExceptionMsg,
                                        "get_stock_data")
               IN  IF h.ctl # "ok"
                   THEN [lg |-> h, ret |-> h.ctl, data |-> <<>>, error_list |-> <<>>,
                         retrieved |-> t.retrieved]
                   ELSE get_stock_data_return(h, t.bound, t.retrieved, download, items)
          [] OTHER -> get_stock_data_return(t.lg, t.bound, t.retrieved, download, items)

(***************************************************************************)
(* extract_stock_data.  Values of the metadata dict are tagged:            *)
(*   [t |-> "absent"] the key is missing, [t |-> "none"] the value is      *)
(*   None, [t |-> "str", v |-> characters], [t |-> "int"] a number.        *)
(* Prices are integers: a Close cell counts hundredths, a Price counts     *)
(* ten-thousandths, so that dividing by 100 is exact.                      *)
(***************************************************************************)
Absent == [t |-> "absent", v |-> <<>>]
None == [t |-> "none", v |-> <<>>]
Str(v) == [t |-> "str", v |-> v]
IntValue == [t |-> "int", v |-> <<>>]

GBp == Str(<<"G", "B", "p">>)
USD == Str(<<"U", "S", "D">>)
UnknownName == Str(<<"U", "n", "k", "n", "o", "w", "n", " ", "N", "a", "m", "e">>)
PlainName == Str(<<"A", "c", "m", "e">>)
CommaName == Str(<<"A", ",", "B">>)

\* what yf.Ticker(symbol).get_info() does for one symbol
Info(displayName, longName, currency) ==
    [kind |-> "info", displayName |-> displayName, longName |-> longName,
     currency |-> currency]
Raises(exc) ==
    [kind |-> exc, displayName |-> Absent, longName |-> Absent, currency |-> Absent]

MetaResponses ==
    { Info(PlainName, Absent, USD), Info(CommaName, Absent, GBp),
      Info(Absent, PlainName, GBp), Info(Absent, Absent, Absent),
      Info(None, PlainName, GBp), Info(PlainName, Absent, None),
      Info(IntValue, Absent, USD), Info(PlainName, Absent, IntValue),
      Raises("KeyError"), Raises("ConnectionError") }

\* the responses a whole run draws from
RunMetaResponses ==
    { Info(PlainName, Absent, USD), Info(None, PlainName, GBp),
      Raises("KeyError"), Raises("ConnectionError") }

\* dict.get(key, default)
DictGet(value, default) == IF value.t = "absent" THEN default ELSE value

\* str.replace(old, new) on single characters
Replace(chars, old, new) ==
    [i \in 1..Len(chars) |-> IF chars[i] = old THEN new ELSE chars[i]]

\* str.upper()
UpperChar(c) ==
    CASE c = "p" -> "P" [] c = "b" -> "B" [] c = "g" -> "G" [] c = "u" -> "U"
      [] c = "s" -> "S" [] c = "d" -> "D" [] OTHER -> c
Upper(chars) == [i \in 1..Len(chars) |-> UpperChar(chars[i])]

\* the metadata try block: the values of symbol_name, symbol_divisor and
\* symbol_currency after it, and whether an exception left it
MetaLookup(meta) ==
    LET initial == [name |-> None, divisor |-> 1, currency |-> None, raised |-> FALSE]
    IN  IF meta.kind # "info"
        THEN IF meta.kind \in {"KeyError", "AttributeError", "TypeError"}
             THEN initial
             ELSE [initial EXCEPT !.raised = TRUE]
        ELSE LET name == DictGet(meta.displayName, DictGet(meta.longName, UnknownName))
                 raw_currency == DictGet(meta.currency, USD)
             IN  IF name.t # "str"
                 THEN [initial EXCEPT !.name = name]
                 ELSE LET replaced == Str(Replace(name.v, ",", " "))
                          divisor == IF raw_currency = GBp THEN 100 ELSE 1
                      IN  IF raw_currency.t # "str"
                          THEN [initial EXCEPT !.name = replaced, !.divisor = divisor]
                          ELSE [name |-> replaced, divisor |-> divisor,
                                currency |-> Str(Upper(raw_currency.v)), raised |-> FALSE]

\* digits as code points
Digit(n) == 48 + n
\* Timestamp.strftime("%Y-%m-%d")
strftime(ts) ==
    << Digit(ts.y \div 1000), Digit((ts.y \div 100) % 10), Digit((ts.y \div 10) % 10),
       Digit(ts.y % 10), 45, Digit(ts.m \div 10), Digit(ts.m % 10), 45,
       Digit(ts.d \div 10), Digit(ts.d % 10) >>

\* float(row["Close"]) / symbol_divisor if not pd.isna(row["Close"]) else 0.0
Price(cell, divisor) == IF cell.t = "nan" THEN 0 ELSE (cell.v * 100) \div divisor

\* a faulty variant: every record appended
Keep_every(record) == TRUE

\* if record["Price"] != 0: stock_records.append(record)
Keep(record) == record.Price # 0

\* building the record of one row raises KeyError / ValueError
RowRaises(frame, i) == "Close" \notin frame.columns \/ frame.Close[i].t = "str"

\* a faulty variant: the records of a symbol dropped when one of its rows raises
ExtractRows_rollback(symbol, frame, index, m) ==
    LET bad == { i \in 1..Len(index) : RowRaises(frame, i) }
        record(i) == [Symbol |-> symbol, Date |-> strftime(index[i]), Name |-> m.name,
                      Currency |-> m.currency, Price |-> Price(frame.Close[i], m.divisor)]
        all == [i \in 1..Len(index) |-> record(i)]
    IN  [records |-> IF bad = {} THEN SelectSeq(all, Keep) ELSE <<>>, raised |-> bad # {}]

\* the rows loop of one symbol: the records appended, and whether it raised
ExtractRows(symbol, frame, index, m) ==
    LET bad == { i \in 1..Len(index) : RowRaises(frame, i) }
        stop == IF bad = {} THEN Len(index) + 1 ELSE CHOOSE i \in bad : \A j \in bad : i <= j
        record(i) == [Symbol |-> symbol, Date |-> strftime(index[i]), Name |-> m.name,
                      Currency |-> m.currency, Price |-> Price(frame.Close[i], m.divisor)]
        all == [i \in 1..(stop - 1) |-> record(i)]
    IN  [records |-> SelectSeq(all, Keep), raised |-> bad # {}]

\* a faulty variant: the key fields swapped, itemgetter("Symbol", "Date")
KeyLe_symbol_first(a, b) ==
    \/ StrLt(a.Symbol, b.Symbol)
    \/ (a.Symbol = b.Symbol /\ (a.Date = b.Date \/ StrLt(a.Date, b.Date)))

\* operator.itemgetter("Date", "Symbol") of a before or equal to that of b
KeyLe(a, b) ==
    \/ StrLt(a.Date, b.Date)
    \/ (a.Date = b.Date /\ (a.Symbol = b.Symbol \/ StrLt(a.Symbol, b.Symbol)))

\* x put into the sorted list after every record whose key is not greater
Insert(sorted, x) ==
    LET k == Cardinality({ i \in 1..Len(sorted) : KeyLe(sorted[i], x) })
    IN  SubSeq(sorted, 1, k) \o <<x>> \o SubSeq(sorted, k + 1, Len(sorted))

\* list.sort(key=...): a stable sort, here by insertion
RECURSIVE SortRecords(_)
SortRecords(records) ==
    IF records = <<>>
    THEN <<>>
    ELSE Insert(SortRecords(SubSeq(records, 1, Len(records) - 1)), records[Len(records)])

\* a faulty variant: the symbol looked for under the key "Error"
InErrorList_wrong_key(error_list, symbol) ==
    \E i \in 1..Len(error_list) : error_list[i].Error = symbol

\* any(error["Symbol"] == symbol for error in error_list)
InErrorList(error_list, symbol) ==
    \E i \in 1..Len(error_list) : error_list[i].Symbol = symbol

\* the symbols loop from position k on, with the records and the error count
\* so far; metas[k] is what the metadata lookup of the k-th symbol does
RECURSIVE ExtractLoop(_, _, _, _, _, _, _)
ExtractLoop(data, symbols, error_list, metas, k, records, error_count) ==
    IF k > Len(symbols)
    THEN [ret |-> "return", records |-> SortRecords(records), error_count |-> error_count]
    ELSE LET symbol == symbols[k]
         IN  IF InErrorList(error_list, symbol)
             THEN ExtractLoop(data, symbols, error_list, metas, k + 1, records, error_count)
             ELSE IF ~InColumns(data, symbol)
             THEN ExtractLoop(data, symbols, error_list, metas, k + 1, records, error_count)
             ELSE LET m == MetaLookup(metas[k])
                      rows == ExtractRows(symbol, data.frames[symbol], data.index, m)
                  IN  IF m.raised
                      THEN [ret |-> "raise", records |-> <<>>, error_count |-> 0]
                      ELSE ExtractLoop(data, symbols, error_list, metas, k + 1,
                                       records \o rows.records,
                                       IF rows.raised THEN error_count + 1 ELSE error_count)

\* extract_stock_data(logger, data, symbols, error_list)
extract_stock_data(data, symbols, error_list, metas) ==
    ExtractLoop(data, symbols, error_list, metas, 1, <<>>, 0)

\* ticker.get_info() was not called for this position
NotCalled == [kind |-> "not called", displayName |-> Absent, longName |-> Absent,
              currency |-> Absent]

\* the get_info() calls extract_stock_data makes: metas[k] for each position it
\* reaches and does not skip, up to the first lookup whose exception leaves
\* the function
Lookups(data, symbols, error_list, metas) ==
    LET reached == { k \in 1..Len(symbols) :
                       ~InErrorList(error_list, symbols[k]) /\ InColumns(data, symbols[k]) }
        leaving == { k \in reached : MetaLookup(metas[k]).raised }
    IN  [k \in 1..Len(symbols) |->
            IF k \in reached /\ \A j \in leaving : k <= j THEN metas[k] ELSE NotCalled]

(***************************************************************************)
(* What the environment can hand to one run.                               *)
(***************************************************************************)
ColumnSets == {RequiredColumns, RequiredColumns \ {"Volume"}}

\* the frames over an index of n rows: any tickers present, each with its
\* columns and one Close cell per row
FramesOver(n, cells) ==
    UNION { [present -> [columns : ColumnSets, Close : [1..n -> cells]]] :
            present \in SUBSET Symbols }

DownloadRaises == [kind |-> "raise", index |-> <<>>, frames |-> <<>>]
DownloadNone == [kind |-> "none", index |-> <<>>, frames |-> <<>>]

\* everything yf.download can do, with the given indexes and Close cells
Downloads(indexes, cells) ==
    {DownloadRaises, DownloadNone} \cup
    UNION { { [kind |-> "frame", index |-> index, frames |-> frames] :
              frames \in FramesOver(Len(index), cells) } :
            index \in indexes }

\* the items of yfinance.shared._ERRORS: at most maxErrors tickers, each once
ErrorItems(maxErrors) ==
    { items \in SeqsOf(Symbols \X ErrorTexts, 0, maxErrors) :
        \A i, j \in 1..Len(items) : i # j => items[i][1] # items[j][1] }

\* what a whole run draws from: an empty frame or one row, a cell that
\* converts or one that float() rejects, two symbols out of alphabetical order
RunIndexes == { <<>>, <<[y |-> 2024, m |-> 1, d |-> 2]>> }
RunCells == {Num(15000), BadCell}
RunSymbolLists == { <<MSFT, AAPL>> }

NoRun == [ran |-> FALSE, failed |-> FALSE, clear_at_start |-> TRUE, condition |-> <<>>,
          failure_mails |-> 0, recovery_mails |-> 0]

\* number of elements of seq equal to x
Count(seq, x) == Cardinality({ i \in 1..Len(seq) : seq[i] = x })

\* what the run that has just exited looked like: whether it reported a
\* failure, which one, and the emails it sent
RunSummary ==
    [ran |-> TRUE,
     failed |-> (log # <<>> \/ Len(yf_errors) > 0 \/ extract_error_count > 0),
     clear_at_start |-> (start_file = <<>>),
     condition |-> <<log, Len(yf_errors), extract_error_count>>,
     failure_mails |-> Count(sent, FatalSubject) + Count(sent, ProblemsSubject),
     recovery_mails |-> Count(sent, RecoverySubject)]

(***************************************************************************)
(* ConfigManager (src/utility.py).  A configuration value is tagged:       *)
(*   t = "none" None, "str" text s, "int" number n, "bool" n = 1 for True, *)
(*   "list" a list of strings.  A document maps keys to values; the keys   *)
(*   of the three sections are distinct, so the sections are flattened.    *)
(* The file holds one YAML scalar per key: its text, and whether it is     *)
(* quoted.                                                                 *)
(***************************************************************************)
CfgNone == [t |-> "none", s |-> "", n |-> 0]
CfgStr(text) == [t |-> "str", s |-> text, n |-> 0]
CfgInt(number) == [t |-> "int", s |-> "", n |-> number]
CfgBool(b) == [t |-> "bool", s |-> "", n |-> IF b THEN 1 ELSE 0]
CfgList == [t |-> "list", s |-> "", n |-> 0]

\* self.default_config
default_config ==
    [Symbols |-> CfgList,
     Period |-> CfgStr("1m"),
     Interval |-> CfgStr("1d"),
     OutputCSV |-> CfgStr("yahoo_prices.csv"),
     MonitoringLogFile |-> CfgStr("YahooFinance.log"),
     MonitoringLogFileMaxLines |-> CfgInt(500),
     LogFileVerbosity |-> CfgStr("detailed"),
     ConsoleVerbosity |-> CfgStr("summary"),
     EnableEmail |-> CfgBool(FALSE),
     SendEmailsTo |-> CfgNone,
     SMTPServer |-> CfgNone,
     SMTPPort |-> CfgNone,
     SMTPUsername |-> CfgNone,
     SMTPPassword |-> CfgNone,
     SubjectPrefix |-> CfgNone]

\* one rule of the cerberus schema; allowed = {} and bounded = FALSE stand for
\* a rule without "allowed" and without "min"/"max"
Rule(type, required, nullable, allowed, bounded, min, max) ==
    [type |-> type, required |-> required, nullable |-> nullable, allowed |-> allowed,
     bounded |-> bounded, min |-> min, max |-> max]

PeriodAllowed == {"1d", "5d", "1mo", "3mo", "6mo", "1y", "2y", "5y", "10y", "ytd", "max"}
IntervalAllowed ==
    {"1m", "2m", "5m", "15m", "30m", "60m", "90m", "1d", "5d", "1wk", "1mo", "3mo"}
LogFileVerbosityAllowed == {"none", "error", "warning", "summary", "detailed", "debug", "all"}
ConsoleVerbosityAllowed == {"error", "warning", "summary", "detailed", "debug", "all"}

\* self.default_config_schema
default_config_schema ==
    [Symbols |-> Rule("list", TRUE, FALSE, {}, FALSE, 0, 0),
     Period |-> Rule("string", FALSE, TRUE, PeriodAllowed, FALSE, 0, 0),
     Interval |-> Rule("string", FALSE, TRUE, IntervalAllowed, FALSE, 0, 0),
     OutputCSV |-> Rule("string", TRUE, FALSE, {}, FALSE, 0, 0),
     MonitoringLogFile |-> Rule("string", FALSE, TRUE, {}, FALSE, 0, 0),
     MonitoringLogFileMaxLines |-> Rule("number", FALSE, FALSE, {}, TRUE, 0, 100000),
     LogFileVerbosity |-> Rule("string", TRUE, FALSE, LogFileVerbosityAllowed, FALSE, 0, 0),
     ConsoleVerbosity |-> Rule("string", TRUE, FALSE, ConsoleVerbosityAllowed, FALSE, 0, 0),
     EnableEmail |-> Rule("boolean", TRUE, FALSE, {}, FALSE, 0, 0),
     SendEmailsTo |-> Rule("string", FALSE, TRUE, {}, FALSE, 0, 0),
     SMTPServer |-> Rule("string", FALSE, TRUE, {}, FALSE, 0, 0),
     SMTPPort |-> Rule("number", FALSE, TRUE, {}, TRUE, 25, 1000),
     SMTPUsername |-> Rule("string", FALSE, TRUE, {}, FALSE, 0, 0),
     SMTPPassword |-> Rule("string", FALSE, TRUE, {}, FALSE, 0, 0),
     SubjectPrefix |-> Rule("string", FALSE, TRUE, {}, FALSE, 0, 0)]

\* the decimal text of the numbers that occur
NumberTexts ==
    { <<5, "5">>, <<24, "24">>, <<500, "500">>, <<587, "587">>, <<1001, "1001">> }

\* a plain (unquoted) scalar, a quoted scalar, a block sequence
Plain(text) == [text |-> text, style |-> "plain"]
Quoted(text) == [text |-> text, style |-> "quoted"]
Sequence == [text |-> "", style |-> "sequence"]

\* the value the YAML resolver gives a plain scalar
Resolve(text) ==
    CASE text \in {"null", "~", ""} -> CfgNone
      [] text \in {"true", "True", "yes", "on"} -> CfgBool(TRUE)
      [] text \in {"false", "False", "no", "off"} -> CfgBool(FALSE)
      [] \E nt \in NumberTexts : nt[2] = text ->
              CfgInt((CHOOSE nt \in NumberTexts : nt[2] = text)[1])
      [] OTHER -> CfgStr(text)

\* yaml.dump of one value: a string is quoted when its plain form would be
\* resolved to something else
YamlDump(value) ==
    CASE value.t = "none" -> Plain("null")
      [] value.t = "bool" -> Plain(IF value.n = 1 THEN "true" ELSE "false")
      [] value.t = "int" -> Plain((CHOOSE nt \in NumberTexts : nt[1] = value.n)[2])
      [] value.t = "list" -> Sequence
      [] OTHER -> IF Resolve(value.s) = CfgStr(value.s) THEN Plain(value.s)
                  ELSE Quoted(value.s)

\* yaml.safe_load of one scalar
YamlLoad(scalar) ==
    CASE scalar.style = "sequence" -> CfgList
      [] scalar.style = "quoted" -> CfgStr(scalar.text)
      [] OTHER -> Resolve(scalar.text)

dump(document) == [key \in DOMAIN document |-> YamlDump(document[key])]
safe_load(file) == [key \in DOMAIN file |-> YamlLoad(file[key])]

\* validate_no_placeholders finds a placeholder among the values
Placeholders ==
    {"<Your email address here>", "<Your SMTP username here>", "<Your SMTP password here>"}
HasPlaceholder(document) ==
    \E key \in DOMAIN document :
        document[key].t = "str" /\ document[key].s \in Placeholders

\* the value satisfies the rule
Satisfies(value, rule) ==
    IF value.t = "none"
    THEN rule.nullable
    ELSE /\ CASE rule.type = "string" -> value.t = "str"
              [] rule.type = "number" -> value.t = "int"
              [] rule.type = "boolean" -> value.t = "bool"
              [] OTHER -> value.t = "list"
         /\ (rule.allowed # {} /\ value.t = "str") => value.s \in rule.allowed
         /\ (rule.bounded /\ value.t = "int") => (rule.min <= value.n /\ value.n <= rule.max)

\* v.validate(config_doc, schema)
validate(document, schema) ==
    /\ DOMAIN document \subseteq DOMAIN schema
    /\ \A key \in DOMAIN schema :
          IF key \in DOMAIN document
          THEN Satisfies(document[key], schema[key])
          ELSE ~schema[key].required

\* merge_configs(default, custom)
merge_configs(default, custom) ==
    [key \in DOMAIN default \cup DOMAIN custom |->
        IF key \in DOMAIN custom THEN custom[key] ELSE default[key]]

\* the configuration the runs of Spec work under: a file the user has edited
RunConfigFile ==
    [dump(default_config) EXCEPT !.Period = Plain("1mo")]

Init ==
    /\ email \in EmailModes
    /\ yf_symbols \in RunSymbolLists
    /\ fatal_file = <<>>
    /\ pc = "idle"
    /\ exit_status = 0
    /\ sent = <<>>
    /\ attempts = 0
    /\ log = <<>>
    /\ calls = {}
    /\ returned = {}
    /\ response = DownloadNone
    /\ yf_shared_errors = <<>>
    /\ yf_data = <<>>
    /\ yf_errors = <<>>
    /\ stock_prices = <<>>
    /\ extract_error_count = 0
    /\ start_file = <<>>
    /\ prev = NoRun
    /\ ticker_info = <<>>
    /\ config_file = <<RunConfigFile>>
    /\ config_created = FALSE
    /\ config_status = "loaded"
    /\ active_config = <<merge_configs(default_config, safe_load(RunConfigFile))>>

\* the logger's part of the state becomes lg
SetLogger(lg) ==
    /\ fatal_file' = lg.file
    /\ sent' = lg.sent
    /\ attempts' = lg.attempts
    /\ log' = lg.log

\* the process ends with the given status
Exit(status) ==
    /\ pc' = "exited"
    /\ exit_status' = status

\* a new process starts main(): configuration loaded, logger set up
StartRun ==
    /\ pc \in {"idle", "exited"}
    /\ pc' = "fetch"
    /\ prev' = IF pc = "exited" THEN RunSummary ELSE prev
    /\ start_file' = fatal_file
    /\ sent' = <<>>
    /\ attempts' = 0
    /\ log' = <<>>
    /\ calls' = {}
    /\ returned' = {}
    /\ response' = DownloadNone
    /\ yf_shared_errors' = <<>>
    /\ yf_data' = <<>>
    /\ yf_errors' = <<>>
    /\ stock_prices' = <<>>
    /\ extract_error_count' = 0
    /\ ticker_info' = <<>>
    /\ UNCHANGED <<email, yf_symbols, fatal_file, exit_status>>
    /\ UNCHANGED config_vars

\* yf_data, yf_errors = get_stock_data(config, logger, yf_symbols), and
\* `if yf_data is None: sys.exit(1)`
GetStockData ==
    /\ pc = "fetch"
    /\ \E download \in Downloads(RunIndexes, RunCells),
          items \in ErrorItems(MaxErrors) :
         LET g == get_stock_data(Logger, yf_symbols, download, items)
         IN  /\ response' = download
             /\ yf_shared_errors' = items
             /\ SetLogger(g.lg)
             /\ calls' = calls \cup {"get_stock_data"}
                               \cup (IF g.retrieved THEN {"get_yf_errors"} ELSE {})
             /\ returned' = IF g.ret = "return" THEN {"get_stock_data"} ELSE {}
             /\ yf_data' = g.data
             /\ yf_errors' = g.error_list
             /\ CASE g.ret = "exit" -> Exit(1)
                  [] g.ret = "raise" -> pc' = "except" /\ UNCHANGED exit_status
                  [] g.data = <<>> -> Exit(1)
                  [] OTHER -> pc' = "extract" /\ UNCHANGED exit_status
    /\ UNCHANGED <<email, yf_symbols, stock_prices, extract_error_count, start_file,
                   prev, ticker_info>>
    /\ UNCHANGED config_vars

\* stock_prices, extract_error_count = extract_stock_data(logger, yf_data,
\* yf_symbols, yf_errors); metas is what get_info does for each symbol in turn,
\* drawn from choices
ExtractWith(choices) ==
    /\ pc = "extract"
    /\ \E metas \in [1..Len(yf_symbols) -> choices] :
         LET x == extract_stock_data(yf_data[1], yf_symbols, yf_errors, metas)
         IN  /\ stock_prices' = x.records
             /\ ticker_info' = Lookups(yf_data[1], yf_symbols, yf_errors, metas)
             /\ extract_error_count' = x.error_count
             /\ pc' = IF x.ret = "raise" THEN "except" ELSE "save"
             /\ returned' = IF x.ret = "raise" THEN returned
                            ELSE returned \cup {"extract_stock_data"}
    /\ calls' = calls \cup {"extract_stock_data"}
    /\ UNCHANGED <<email, yf_symbols, fatal_file, exit_status, sent, attempts, log,
                   response, yf_shared_errors, yf_data, yf_errors, start_file, prev>>
    /\ UNCHANGED config_vars

ExtractStockData == ExtractWith(RunMetaResponses)

\* what CSVReader does: it writes the file, raises one of the exceptions
\* save_to_csv catches, or raises another one
CsvOutcomes == {"written", "ValueError", "OSError"}

\* save_to_csv(stock_prices, config, logger, schemas.csv_header_config); the
\* run has "write_csv" among its calls once the file has been replaced
SaveToCsv ==
    /\ pc = "save"
    /\ \E outcome \in CsvOutcomes :
         CASE outcome = "written" ->
                /\ calls' = calls \cup {"save_to_csv", "write_csv"}
                /\ returned' = returned \cup {"save_to_csv"}
                /\ pc' = "report"
                /\ UNCHANGED <<fatal_file, sent, attempts, log, exit_status>>
           [] outcome = "ValueError" ->
                LET lg == log_fatal_error(Logger, CsvFailedMsg, "save_to_csv")
                IN  /\ SetLogger(lg)
                    /\ calls' = calls \cup {"save_to_csv"}
                    /\ returned' = IF lg.ctl = "ok" THEN returned \cup {"save_to_csv"}
                                   ELSE returned
                    /\ CASE lg.ctl = "exit" -> Exit(1)
                         [] lg.ctl = "raise" -> pc' = "except" /\ UNCHANGED exit_status
                         [] OTHER -> pc' = "report" /\ UNCHANGED exit_status
           [] OTHER ->
                /\ calls' = calls \cup {"save_to_csv"}
                /\ pc' = "except"
                /\ UNCHANGED returned
                /\ UNCHANGED <<fatal_file, sent, attempts, log, exit_status>>
    /\ UNCHANGED <<email, yf_symbols, response, yf_shared_errors, yf_data, yf_errors,
                   stock_prices, extract_error_count, start_file, prev, ticker_info>>
    /\ UNCHANGED config_vars

\* error_message of main(): <<>> for None
error_message ==
    IF Len(yf_errors) > 0
    THEN <<DownloadErrorsMsg(Len(yf_errors))>>
    ELSE IF extract_error_count > 0
    THEN <<ExtractErrorsMsg(extract_error_count)>>
    ELSE <<>>

\* a faulty variant: the email sent without asking get_fatal_error()
report_errors_always(lg, message) ==
    LET mailed == send_email(lg, ProblemsSubject)
    IN  IF mailed.ctl # "ok"
        THEN mailed
        ELSE [set_fatal_error(mailed, message) EXCEPT !.ctl = "exit"]

\* "Send email if we had any download or extract errors"
report_errors(lg, message) ==
    LET mailed == IF ~get_fatal_error(lg) THEN send_email(lg, ProblemsSubject) ELSE lg
    IN  IF mailed.ctl # "ok"
        THEN mailed
        ELSE [set_fatal_error(mailed, message) EXCEPT !.ctl = "exit"]

ReportErrors ==
    /\ pc = "report"
    /\ IF error_message = <<>>
       THEN /\ pc' = "finish"
            /\ UNCHANGED <<fatal_file, sent, attempts, log, exit_status>>
       ELSE LET lg == report_errors(Logger, error_message[1])
            IN  /\ SetLogger(lg)
                /\ IF lg.ctl = "raise"
                   THEN pc' = "except" /\ UNCHANGED exit_status
                   ELSE Exit(1)
    /\ UNCHANGED <<email, yf_symbols, calls, returned, response, yf_shared_errors, yf_data,
                   yf_errors, stock_prices, extract_error_count, start_file, prev, ticker_info>>
    /\ UNCHANGED config_vars

\* "If the prior run fails, send email that this run worked OK"
recover(lg) ==
    IF get_fatal_error(lg)
    THEN LET mailed == send_email(lg, RecoverySubject)
         IN  IF mailed.ctl # "ok" THEN mailed ELSE clear_fatal_error(mailed)
    ELSE lg

\* the end of main() and sys.exit(0); an exception that leaves main() ends
\* the process with status 1
Finish ==
    /\ pc = "finish"
    /\ LET lg == recover(Logger)
       IN  /\ SetLogger(lg)
           /\ Exit(IF lg.ctl = "ok" THEN 0 ELSE 1)
    /\ UNCHANGED <<email, yf_symbols, calls, returned, response, yf_shared_errors, yf_data,
                   yf_errors, stock_prices, extract_error_count, start_file, prev, ticker_info>>
    /\ UNCHANGED config_vars

\* except Exception as e: logger.log_fatal_error(...); sys.exit(1)
MainExcept ==
    /\ pc = "except"
    /\ SetLogger(log_fatal_error(Logger, UnexpectedMsg, "main"))
    /\ Exit(1)
    /\ UNCHANGED <<email, yf_symbols, calls, returned, response, yf_shared_errors, yf_data,
                   yf_errors, stock_prices, extract_error_count, start_file, prev, ticker_info>>
    /\ UNCHANGED config_vars

Next ==
    \/ StartRun
    \/ GetStockData
    \/ ExtractStockData
    \/ SaveToCsv
    \/ ReportErrors
    \/ Finish
    \/ MainExcept

Spec == Init /\ [][Next]_vars

(***************************************************************************)
(* Properties of the run controller, checked under Spec.                   *)
(***************************************************************************)
\* the run that has just exited, seen from outside
ThisRun == RunSummary

\* a send_email call of this configuration returns to its caller
SendReturns == email \in {"disabled", "ok"}

\* the provider error list of the current run
ProviderErrors == get_yf_errors(yf_shared_errors)

\* the download returned a frame that passes the validation of get_stock_data
ValidFrame ==
    /\ response.kind = "frame"
    /\ response.index # <<>>
    /\ \A i \in 1..Len(yf_symbols) :
         /\ yf_symbols[i] \in DOMAIN response.frames
         /\ RequiredColumns \subseteq response.frames[yf_symbols[i]].columns

\* the text holds the marker somewhere
TextContains(text, marker) == \E i \in 1..Len(text) : text[i] = marker

\* the text begins with the marker
TextBeginsWith(text, marker) == text # <<>> /\ Head(text) = marker

RateLimited ==
    \E i \in 1..Len(ProviderErrors) : TextBeginsWith(ProviderErrors[i].Error, RateLimitMarker)

InvalidParameter ==
    \E i \in 1..Len(ProviderErrors) :
        \/ TextContains(ProviderErrors[i].Error, IntervalMarker)
        \/ TextContains(ProviderErrors[i].Error, PeriodMarker)

\* C1: with email enabled and delivering, of two consecutive failing runs with
\* the same error condition, the first starting from Clear, exactly one
\* failure notification is sent by the two together; and the run that succeeds
\* after a failing run sends exactly one recovery notification.
C1_FatalErrorDedup ==
    (pc = "exited" /\ email = "ok" /\ prev.ran /\ prev.failed) =>
        /\ (ThisRun.failed /\ prev.clear_at_start /\ ThisRun.condition = prev.condition)
              => prev.failure_mails + ThisRun.failure_mails = 1
        /\ ~ThisRun.failed => (ThisRun.recovery_mails = 1 /\ ThisRun.failure_mails = 0)

\* C2: the step of main() that finds a non-empty error condition sends the
\* failure notification iff the tracking file was absent at that point; when the
\* send returns it leaves the file holding this run's error message and the
\* process exits with status 1.
C2_ErrorConditionReport ==
    [][ (pc = "report" /\ error_message # <<>>) =>
          /\ email = "ok" =>
               sent' = IF fatal_file = <<>> THEN Append(sent, ProblemsSubject) ELSE sent
          /\ SendReturns =>
               /\ fatal_file' = error_message
               /\ pc' = "exited"
               /\ exit_status' = 1 ]_vars

\* C2 has happened from Clear: the notification went out, the message is
\* stored and the run exited with status 1
C2_Witness ==
    /\ pc = "exited"
    /\ exit_status = 1
    /\ start_file = <<>>
    /\ log = <<>>
    /\ extract_error_count > 0
    /\ sent = <<ProblemsSubject>>
    /\ fatal_file = <<ExtractErrorsMsg(extract_error_count)>>

\* C3: a recovery notification is sent only by a run that started with the
\* tracking file present and had no error of its own; and a run that starts from
\* Clear and ends with status 0 has sent no notification.
C3_RecoveryOnlyAfterPriorFailure ==
    pc = "exited" =>
        /\ Count(sent, RecoverySubject) > 0 => (start_file # <<>> /\ ~ThisRun.failed)
        /\ (start_file = <<>> /\ exit_status = 0) => sent = <<>>

\* C4: status 0 only for a run that recorded no failure; a run that recorded a
\* failure (fatal error logged, download errors or extraction errors) ends with
\* status 1 and with the tracking file present.
C4_ExitCodes ==
    pc = "exited" =>
        /\ exit_status = 0 => ~ThisRun.failed
        /\ (ThisRun.failed /\ SendReturns) => (exit_status = 1 /\ fatal_file # <<>>)

\* C5: when the download returned and the provider error list holds a text that
\* starts with the rate-limit marker, get_stock_data returns (None, 0), nothing
\* is extracted or written, the process exits with status 1, and exactly one
\* notification is sent if the tracking file was absent, none if it was present.
C5_RateLimit ==
    (RateLimited /\ response.kind # "raise" /\ SendReturns) =>
        /\ pc = "exited"
        /\ exit_status = 1
        /\ "get_stock_data" \in returned
        /\ yf_data = <<>>
        /\ calls \cap {"extract_stock_data", "save_to_csv", "write_csv"} = {}
        /\ email = "ok" => sent = IF start_file = <<>> THEN <<FatalSubject>> ELSE <<>>

\* C5 has happened on a frame that is otherwise valid, from Clear
C5_Witness ==
    /\ RateLimited
    /\ ValidFrame
    /\ pc = "exited"
    /\ start_file = <<>>
    /\ sent = <<FatalSubject>>
    /\ fatal_file = <<RateLimitMsg>>

\* C6: when the frame is valid and a provider error text contains the
\* invalid-interval or the invalid-period marker, and none is a rate-limit
\* error, get_stock_data returns None, nothing is extracted or written, and the
\* process exits with status 1.
C6_InvalidParameterFatal ==
    (InvalidParameter /\ ~RateLimited /\ ValidFrame /\ SendReturns) =>
        /\ pc = "exited"
        /\ exit_status = 1
        /\ yf_data = <<>>
        /\ calls \cap {"extract_stock_data", "save_to_csv", "write_csv"} = {}

\* C7: when the frame is valid and the provider error list is non-empty with no
\* text of the three categories, get_stock_data reports no fatal error and sends
\* no email, and returns the frame with the error list.
C7_OtherErrorsNotFatal ==
    (ProviderErrors # <<>> /\ ~RateLimited /\ ~InvalidParameter /\ ValidFrame
        /\ pc = "extract") =>
        /\ yf_data = <<response>>
        /\ yf_errors = ProviderErrors
        /\ log = <<>>
        /\ sent = <<>>
        /\ fatal_file = start_file

\* the response is empty, lacks a requested symbol, or a requested symbol in
\* it lacks one of the five columns
DefectiveResponse ==
    \/ response.kind = "none"
    \/ /\ response.kind = "frame"
       /\ \/ response.index = <<>>
          \/ \E i \in 1..Len(yf_symbols) :
               \/ yf_symbols[i] \notin DOMAIN response.frames
               \/ ~(RequiredColumns \subseteq response.frames[yf_symbols[i]].columns)

\* C8: on a defective response get_stock_data never returns data, and returns
\* None whenever its fatal-error report returns; and whenever get_stock_data
\* returns None, get_yf_errors has been called in it.
C8_FatalReturns ==
    /\ ("get_stock_data" \in calls /\ DefectiveResponse) =>
          /\ yf_data = <<>>
          /\ "extract_stock_data" \notin calls
          /\ SendReturns => "get_stock_data" \in returned
    /\ ("get_stock_data" \in returned /\ yf_data = <<>>) => "get_yf_errors" \in calls

\* C8 has happened: a requested symbol was missing from a non-empty frame and
\* None came back after the error list was retrieved
C8_Witness ==
    /\ response.kind = "frame"
    /\ response.index # <<>>
    /\ DOMAIN response.frames = {MSFT}
    /\ "get_stock_data" \in returned
    /\ yf_data = <<>>
    /\ "get_yf_errors" \in calls
    /\ log = <<SymbolNotFoundMsg>>

\* C9: once the except clause of get_stock_data has reported an exception, the
\* run never enters extract_stock_data or save_to_csv, and it exits with 1.
C9_FetchExceptionStopsRun ==
    (\E i \in 1..Len(log) : log[i] = FetchExceptionMsg) =>
        /\ calls \cap {"extract_stock_data", "save_to_csv", "write_csv"} = {}
        /\ pc = "exited" => exit_status = 1

(***************************************************************************)
(* extract_stock_data on its own: any symbol list, any frame over both     *)
(* tickers with its index in any order, any provider error list.           *)
(***************************************************************************)
ExtractTimestamps == { [y |-> 2024, m |-> 1, d |-> 2], [y |-> 2024, m |-> 1, d |-> 10] }
ExtractCells == {NaN, Num(15000)}
ExtractMetaResponses == { Info(PlainName, Absent, USD), Info(CommaName, Absent, GBp) }

\* frames as get_stock_data lets them through: every ticker, all five columns
ExtractFrames ==
    UNION { { [kind |-> "frame", index |-> index, frames |-> frames] :
              frames \in [Symbols -> [columns : {RequiredColumns},
                                      Close : [1..Len(index) -> ExtractCells]]] } :
            index \in SeqsOf(ExtractTimestamps, 0, MaxBars) }

InitExtract ==
    /\ email = "disabled"
    /\ yf_symbols \in SeqsOf(Symbols, 0, MaxSymbols)
    /\ fatal_file = <<>>
    /\ pc = "extract"
    /\ exit_status = 0
    /\ sent = <<>>
    /\ attempts = 0
    /\ log = <<>>
    /\ calls = {"get_stock_data", "get_yf_errors"}
    /\ returned = {"get_stock_data"}
    /\ \E data \in ExtractFrames : response = data /\ yf_data = <<data>>
    /\ \E items \in ErrorItems(MaxErrors) :
         /\ \A i \in 1..Len(items) : items[i][2] = <<"YFPricesMissingError('possibly delisted; no price data found')">>
         /\ yf_shared_errors = items
         /\ yf_errors = get_yf_errors(items)
    /\ stock_prices = <<>>
    /\ extract_error_count = 0
    /\ start_file = <<>>
    /\ prev = NoRun
    /\ ticker_info = <<>>
    /\ config_file = <<RunConfigFile>>
    /\ config_created = FALSE
    /\ config_status = "loaded"
    /\ active_config = <<merge_configs(default_config, safe_load(RunConfigFile))>>

ExtractAlone == ExtractWith(ExtractMetaResponses)

SpecExtract == InitExtract /\ [][ExtractAlone]_vars

\* C10: the records extract_stock_data returns are in ascending order of
\* (Date, Symbol): of two adjacent records the first has the smaller Date, or
\* the same Date and a Symbol that is not greater.
C10_SortInvariant ==
    "extract_stock_data" \in returned =>
        \A i \in 1..(Len(stock_prices) - 1) :
            LET r1 == stock_prices[i]
                r2 == stock_prices[i + 1]
            IN  \/ StrLt(r1.Date, r2.Date)
                \/ (r1.Date = r2.Date /\ ~StrLt(r2.Symbol, r1.Symbol))

\* C10 has happened: the symbols were given out of alphabetical order and the
\* index out of date order, and both symbols have records on both dates
C10_Witness ==
    /\ "extract_stock_data" \in returned
    /\ yf_symbols = <<MSFT, AAPL>>
    /\ Len(response.index) = 2
    /\ StrLt(strftime(response.index[2]), strftime(response.index[1]))
    /\ Len(stock_prices) = 4
    /\ stock_prices[1].Symbol = AAPL
    /\ stock_prices[2].Symbol = MSFT
    /\ stock_prices[2].Date = stock_prices[1].Date
    /\ stock_prices[3].Symbol = AAPL

\* the symbols the provider reported an error for
ErrorSymbols == { yf_errors[i].Symbol : i \in 1..Len(yf_errors) }

\* the lookups of the current run, with a plain successful answer at the
\* positions where get_info() was not called
InfoOrPlain ==
    [k \in 1..Len(ticker_info) |->
        IF ticker_info[k] = NotCalled THEN Info(PlainName, Absent, USD) ELSE ticker_info[k]]

\* C11: no returned record carries a symbol of the provider error list, although
\* the frame has bars for it; and the records of the other symbols are exactly
\* those the same call returns with an empty error list.
C11_ErrorSkip ==
    "extract_stock_data" \in returned =>
        /\ \A i \in 1..Len(stock_prices) : stock_prices[i].Symbol \notin ErrorSymbols
        /\ stock_prices =
             SelectSeq(extract_stock_data(yf_data[1], yf_symbols, <<>>, InfoOrPlain).records,
                       LAMBDA r : r.Symbol \notin ErrorSymbols)

\* C11 has happened: AAPL is in the error list and has a bar with a price in
\* the frame, MSFT is not, and only MSFT records came back
C11_Witness ==
    /\ "extract_stock_data" \in returned
    /\ yf_symbols = <<MSFT, AAPL>>
    /\ ErrorSymbols = {AAPL}
    /\ Len(response.index) >= 1
    /\ response.frames[AAPL].Close[1] = Num(15000)
    /\ stock_prices # <<>>
    /\ \A i \in 1..Len(stock_prices) : stock_prices[i].Symbol = MSFT

(***************************************************************************)
(* extract_stock_data against everything get_info() can do: any symbol     *)
(* list, frames whose closes all convert, an empty provider error list.    *)
(***************************************************************************)
\* a date index of n distinct days, in order
DayIndex(n) == [i \in 1..n |-> [y |-> 2024, m |-> 1, d |-> i + 1]]

\* AAPL has a price on every day, MSFT a price or NaN
MetaFrames ==
    UNION { { [kind |-> "frame", index |-> DayIndex(n), frames |-> frames] :
              frames \in { f \in [Symbols -> [columns : {RequiredColumns},
                                               Close : [1..n -> {NaN, Num(15000)}]]] :
                             \A i \in 1..n : f[AAPL].Close[i] = Num(15000) } } :
            n \in 0..MaxBars }

InitMeta ==
    /\ email = "disabled"
    /\ yf_symbols \in SeqsOf(Symbols, 0, MaxSymbols)
    /\ fatal_file = <<>>
    /\ pc = "extract"
    /\ exit_status = 0
    /\ sent = <<>>
    /\ attempts = 0
    /\ log = <<>>
    /\ calls = {"get_stock_data", "get_yf_errors"}
    /\ returned = {"get_stock_data"}
    /\ \E data \in MetaFrames : response = data /\ yf_data = <<data>>
    /\ yf_shared_errors = <<>>
    /\ yf_errors = <<>>
    /\ stock_prices = <<>>
    /\ extract_error_count = 0
    /\ start_file = <<>>
    /\ prev = NoRun
    /\ ticker_info = <<>>
    /\ config_file = <<RunConfigFile>>
    /\ config_created = FALSE
    /\ config_status = "loaded"
    /\ active_config = <<merge_configs(default_config, safe_load(RunConfigFile))>>

ExtractAnyInfo == ExtractWith(MetaResponses)

SpecMeta == InitMeta /\ [][ExtractAnyInfo]_vars

\* the value info.get finds for the name and for the currency
NameField(meta) == IF meta.displayName # Absent THEN meta.displayName ELSE meta.longName
\* the lookup of this position failed: the call raised, or a field that is
\* present does not hold text
LookupFailed(meta) ==
    \/ meta.kind \notin {"info", "not called"}
    \/ /\ meta.kind = "info"
       /\ \/ NameField(meta).t \in {"none", "int"}
          \/ meta.currency.t \in {"none", "int"}

\* the same lookups with every failed one replaced by a successful one
InfoRepaired ==
    [k \in 1..Len(ticker_info) |->
        IF ticker_info[k] = NotCalled \/ LookupFailed(ticker_info[k])
        THEN Info(PlainName, Absent, USD) ELSE ticker_info[k]]

\* number of records of the symbol in the list
CountSymbol(records, symbol) ==
    Cardinality({ i \in 1..Len(records) : records[i].Symbol = symbol })

\* C12: when the metadata lookup of some symbol fails, extract_stock_data
\* returns, error_count is what it is with successful lookups, every symbol
\* has as many records as with successful lookups, and each bar of a failed
\* lookup's symbol is emitted with Name and Currency null and the close
\* undivided.
C12_MetadataFailureTolerance ==
    ("extract_stock_data" \in calls
        /\ \E k \in 1..Len(ticker_info) : LookupFailed(ticker_info[k])) =>
        /\ "extract_stock_data" \in returned
        /\ LET repaired == extract_stock_data(yf_data[1], yf_symbols, yf_errors, InfoRepaired)
           IN  /\ extract_error_count = repaired.error_count
               /\ \A symbol \in Symbols :
                     CountSymbol(stock_prices, symbol) = CountSymbol(repaired.records, symbol)
        /\ \A k \in 1..Len(ticker_info) : LookupFailed(ticker_info[k]) =>
              \A i \in 1..Len(response.index) :
                  response.frames[yf_symbols[k]].Close[i].t = "float" =>
                      \E j \in 1..Len(stock_prices) :
                          stock_prices[j] =
                              [Symbol |-> yf_symbols[k],
                               Date |-> strftime(response.index[i]),
                               Name |-> None, Currency |-> None,
                               Price |-> response.frames[yf_symbols[k]].Close[i].v * 100]

(***************************************************************************)
(* extract_stock_data against every kind of Close cell: any symbol list,   *)
(* any provider error list, successful lookups.                            *)
(***************************************************************************)
\* AAPL has any cell on each day, MSFT a price or a value float() rejects
RowFrames ==
    UNION { { [kind |-> "frame", index |-> DayIndex(n), frames |-> frames] :
              frames \in { f \in [Symbols -> [columns : {RequiredColumns},
                                               Close : [1..n -> CloseCells]]] :
                             \A i \in 1..n : f[MSFT].Close[i] \in {Num(15000), BadCell} } } :
            n \in 0..MaxBars }

InitRows ==
    /\ email = "disabled"
    /\ yf_symbols \in SeqsOf(Symbols, 0, MaxSymbols)
    /\ fatal_file = <<>>
    /\ pc = "extract"
    /\ exit_status = 0
    /\ sent = <<>>
    /\ attempts = 0
    /\ log = <<>>
    /\ calls = {"get_stock_data", "get_yf_errors"}
    /\ returned = {"get_stock_data"}
    /\ \E data \in RowFrames : response = data /\ yf_data = <<data>>
    /\ \E items \in ErrorItems(MaxErrors) :
         /\ \A i \in 1..Len(items) : items[i][2] = <<"YFPricesMissingError('possibly delisted; no price data found')">>
         /\ yf_shared_errors = items
         /\ yf_errors = get_yf_errors(items)
    /\ stock_prices = <<>>
    /\ extract_error_count = 0
    /\ start_file = <<>>
    /\ prev = NoRun
    /\ ticker_info = <<>>
    /\ config_file = <<RunConfigFile>>
    /\ config_created = FALSE
    /\ config_status = "loaded"
    /\ active_config = <<merge_configs(default_config, safe_load(RunConfigFile))>>

SpecRows == InitRows /\ [][ExtractAlone]_vars

\* the first row of the symbol whose Close float() rejects, one past the last
\* row when there is none
StopRow(symbol) ==
    LET rejected == { i \in 1..Len(response.index) :
                        response.frames[symbol].Close[i].t = "str" }
    IN  IF rejected = {} THEN Len(response.index) + 1
        ELSE CHOOSE i \in rejected : \A j \in rejected : i <= j

\* number of records of the symbol on the day of row i
CountBar(symbol, i) ==
    Cardinality({ j \in 1..Len(stock_prices) :
                    /\ stock_prices[j].Symbol = symbol
                    /\ stock_prices[j].Date = strftime(response.index[i]) })

\* C13: no returned record has Price 0; a bar whose close is NaN or zero gives
\* no record; and a bar with a non-zero close, of a symbol that is not skipped,
\* before any row error of that symbol, gives one record for each occurrence of
\* the symbol in the requested list.
C13_ZeroFilter ==
    "extract_stock_data" \in returned =>
        /\ \A j \in 1..Len(stock_prices) : stock_prices[j].Price # 0
        /\ \A symbol \in Symbols : \A i \in 1..Len(response.index) :
              LET cell == response.frames[symbol].Close[i]
              IN  /\ (cell.t = "nan" \/ cell = Num(0)) => CountBar(symbol, i) = 0
                  /\ (cell.t = "float" /\ cell.v # 0 /\ symbol \notin ErrorSymbols
                        /\ i < StopRow(symbol))
                       => CountBar(symbol, i) = Count(yf_symbols, symbol)

\* C13 has happened: AAPL, requested twice, has a zero close and then a price,
\* and exactly the price came back, twice
C13_Witness ==
    /\ "extract_stock_data" \in returned
    /\ yf_symbols = <<AAPL, AAPL>>
    /\ yf_errors = <<>>
    /\ response.frames[AAPL].Close = <<Num(0), Num(15000)>>
    /\ Len(stock_prices) = 2
    /\ stock_prices[1].Date = strftime(response.index[2])
    /\ stock_prices[2].Date = strftime(response.index[2])

\* the frame of the current run with every Close of the symbol missing
WithoutCloses(symbol) ==
    [response EXCEPT !.frames[symbol].Close = [i \in 1..Len(response.index) |-> NaN]]

\* the records that are not of the symbol
NotOf(records, symbol) == SelectSeq(records, LAMBDA r : r.Symbol # symbol)

\* C14: error_count is the number of requested, not skipped symbols one of
\* whose rows raises; such a symbol has no record from its failing bar onward
\* and keeps one record per occurrence for each priced bar before it; and the
\* records of the other symbols, and their errors, are those of the same call
\* on a frame where the failing symbol has no closes at all.
C14_RowErrorIsolation ==
    "extract_stock_data" \in returned =>
        /\ extract_error_count =
             Cardinality({ k \in 1..Len(yf_symbols) :
                             /\ yf_symbols[k] \notin ErrorSymbols
                             /\ StopRow(yf_symbols[k]) <= Len(response.index) })
        /\ \A symbol \in Symbols \ ErrorSymbols :
              StopRow(symbol) <= Len(response.index) =>
                  /\ \A i \in StopRow(symbol)..Len(response.index) : CountBar(symbol, i) = 0
                  /\ \A i \in 1..(StopRow(symbol) - 1) :
                        response.frames[symbol].Close[i] = Num(15000) =>
                            CountBar(symbol, i) = Count(yf_symbols, symbol)
                  /\ LET calm == extract_stock_data(WithoutCloses(symbol), yf_symbols,
                                                    yf_errors, InfoOrPlain)
                     IN  /\ NotOf(stock_prices, symbol) = NotOf(calm.records, symbol)
                         /\ extract_error_count =
                              calm.error_count + Count(yf_symbols, symbol)

\* C14 has happened: AAPL, first in the list, has a price and then a value
\* float() rejects; its first bar and both bars of MSFT came back, one error
C14_Witness ==
    /\ "extract_stock_data" \in returned
    /\ yf_symbols = <<AAPL, MSFT>>
    /\ yf_errors = <<>>
    /\ response.frames[AAPL].Close = <<Num(15000), BadCell>>
    /\ response.frames[MSFT].Close = <<Num(15000), Num(15000)>>
    /\ extract_error_count = 1
    /\ Len(stock_prices) = 3
    /\ CountSymbol(stock_prices, AAPL) = 1

\* the price the close v has under the provider's raw currency: divided by
\* 100 for the pence marker, undivided otherwise
PriceIn(currency, v) == IF currency = GBp THEN v ELSE v * 100

\* C15: every bar with a price, of every position whose metadata was looked
\* up, is emitted with its close divided by 100 when the raw currency of that
\* lookup is GBp and undivided otherwise; and every emitted price is one of
\* these.
C15_CurrencyDivisor ==
    "extract_stock_data" \in returned =>
        /\ \A k \in 1..Len(ticker_info) : \A i \in 1..Len(response.index) :
              LET cell == response.frames[yf_symbols[k]].Close[i]
              IN  (ticker_info[k] # NotCalled /\ cell.t = "float" /\ cell.v # 0) =>
                      \E j \in 1..Len(stock_prices) :
                          /\ stock_prices[j].Symbol = yf_symbols[k]
                          /\ stock_prices[j].Date = strftime(response.index[i])
                          /\ stock_prices[j].Price = PriceIn(ticker_info[k].currency, cell.v)
        /\ \A j \in 1..Len(stock_prices) :
              \E k \in 1..Len(ticker_info) : \E i \in 1..Len(response.index) :
                  /\ stock_prices[j].Symbol = yf_symbols[k]
                  /\ stock_prices[j].Date = strftime(response.index[i])
                  /\ ticker_info[k] # NotCalled
                  /\ stock_prices[j].Price =
                       PriceIn(ticker_info[k].currency, response.frames[yf_symbols[k]].Close[i].v)

(***************************************************************************)
(* Properties of the notifier, checked under Spec.                         *)
(***************************************************************************)
\* a send_email call of the current run has failed: it found the SMTP
\* settings incomplete, or it opened a connection and the send raised
SendFailed ==
    \/ email = "incomplete" /\ \E i \in 1..Len(log) : log[i] = SmtpIncompleteMsg
    \/ email \in {"RuntimeError", "OSError"} /\ attempts >= 1

\* C16: a run in which a send failed ends with status 1 and with the tracking
\* file holding the message of the send failure, and it has opened at most one
\* SMTP connection: the report of the failure does not send again.
C16_SendFailureIsFatal ==
    (pc = "exited" /\ SendFailed) =>
        /\ exit_status = 1
        /\ fatal_file \in {<<SmtpIncompleteMsg>>, <<SendFailedMsg>>}
        /\ attempts <= 1

(***************************************************************************)
(* ConfigManager.load_config on its own: no configuration file, or a file  *)
(* that differs from the default one in some of its values.                *)
(***************************************************************************)
\* the document without the key
Without(document, key) == [k \in DOMAIN document \ {key} |-> document[k]]

ConfigFiles ==
    LET written == dump(default_config)
        edited == { [written EXCEPT !.Period = period, !.Interval = interval,
                                    !.LogFileVerbosity = verbosity, !.EnableEmail = enable,
                                    !.SMTPPort = port, !.SendEmailsTo = to] :
                      period \in {Plain("1m"), Plain("1mo"), Plain("null"), Plain("5")},
                      interval \in {Plain("1d"), Plain("2d")},
                      verbosity \in {Plain("detailed"), Plain("verbose")},
                      enable \in {Plain("false"), Plain("true"), Quoted("true")},
                      port \in {Plain("null"), Plain("24"), Plain("587"), Plain("1001")},
                      to \in {Plain("null"), Plain("me@example.com"),
                              Plain("<Your email address here>")} }
    IN  edited \cup { Without(file, "OutputCSV") : file \in edited }

\* ConfigManager.load_config()
LoadConfig ==
    /\ pc = "config"
    /\ LET created == config_file = <<>>
           file == IF created THEN dump(default_config) ELSE config_file[1]
           config_doc == safe_load(file)
       IN  /\ config_file' = <<file>>
           /\ config_created' = created
           /\ IF HasPlaceholder(config_doc) \/ ~validate(config_doc, default_config_schema)
              THEN /\ config_status' = "exit"
                   /\ active_config' = <<>>
                   /\ Exit(1)
              ELSE /\ config_status' = "loaded"
                   /\ active_config' = <<merge_configs(default_config, config_doc)>>
                   /\ pc' = "idle"
                   /\ UNCHANGED exit_status
    /\ UNCHANGED <<email, yf_symbols, fatal_file, sent, attempts, log, calls, returned,
                   response, yf_shared_errors, yf_data, yf_errors, stock_prices,
                   extract_error_count, start_file, prev, ticker_info>>

InitConfig ==
    /\ email = "disabled"
    /\ yf_symbols = <<>>
    /\ fatal_file = <<>>
    /\ pc = "config"
    /\ exit_status = 0
    /\ sent = <<>>
    /\ attempts = 0
    /\ log = <<>>
    /\ calls = {}
    /\ returned = {}
    /\ response = DownloadNone
    /\ yf_shared_errors = <<>>
    /\ yf_data = <<>>
    /\ yf_errors = <<>>
    /\ stock_prices = <<>>
    /\ extract_error_count = 0
    /\ start_file = <<>>
    /\ prev = NoRun
    /\ ticker_info = <<>>
    /\ config_file \in {<<>>} \cup { <<file>> : file \in ConfigFiles }
    /\ config_created = FALSE
    /\ config_status = "pending"
    /\ active_config = <<>>

SpecConfig == InitConfig /\ [][LoadConfig]_vars

\* C17: when load_config finds no configuration file and writes the default
\* one, the document it loads back passes the validation, the configuration
\* is loaded and the process is not ended.
C17_DefaultConfigValid ==
    (config_created /\ config_status # "pending") =>
        /\ validate(safe_load(config_file[1]), default_config_schema)
        /\ config_status = "loaded"
        /\ pc # "exited"

====
